---- MODULE Spec2Model ----
(***************************************************************************)
(* photosync.py: the photoSync class.  Text is modelled as a sequence of   *)
(* tokens: timestamps and captions one character per token, paths one     *)
(* path component (or one "/" separator) per token.                        *)
(***************************************************************************)
EXTENDS Integers, Sequences, FiniteSets, TLC

VARIABLES
    phase,    \* "new" | "idle" | "running" | "returned" | "raised" | "crashed"
    cfg,      \* the .config file: [exists, sections, plexUp]
    attrs,    \* the attributes set on self so far
    tz,       \* the host's local timezone, minutes east of UTC
    fs,       \* the filesystem: the set of existing paths
    tags,     \* the metadata of each media file: path -> tag -> value
    op,       \* the operation running (or last run)
    arg,      \* its argument
    stage,    \* the loop of the operation that is running
    i,        \* the index of the next record of that loop
    calls,    \* the external invocations of this call, in order
    err,      \* the exception the call raised ("" when none)
    ret,      \* the value the call returned
    log,      \* photosync.log: the entries appended
    store,    \* the text of the descriptor files written
    loaded    \* the value the script holds from its last loadJSON

vars == <<phase, cfg, attrs, tz, fs, tags, op, arg, stage, i, calls, err, ret,
          log, store, loaded>>

----------------------------------------------------------------------------
(* Bounds of the model.                                                    *)
MaxBatch == 2
MaxRows == 2

----------------------------------------------------------------------------
(* Text.                                                                   *)
Digits == <<"0", "1", "2", "3", "4", "5", "6", "7", "8", "9">>

IsDigit(c) == \E k \in 1..10 : Digits[k] = c

DigitVal(c) == (CHOOSE k \in 1..10 : Digits[k] = c) - 1

AllDigits(s) == \A k \in 1..Len(s) : IsDigit(s[k])

RECURSIVE NumVal(_)
NumVal(s) == IF s = <<>> THEN 0
             ELSE 10 * NumVal(SubSeq(s, 1, Len(s) - 1)) + DigitVal(s[Len(s)])

Pad2(n) == <<Digits[((n \div 10) % 10) + 1], Digits[(n % 10) + 1]>>

Pad4(n) == Pad2(n \div 100) \o Pad2(n % 100)

Last(s) == s[Len(s)]

\* The text from position a to position b, Python's s[a-1:b].
Slice(s, a, b) == SubSeq(s, a, IF b > Len(s) THEN Len(s) ELSE b)

----------------------------------------------------------------------------
(* The calendar of datetime.                                               *)
IsLeap(y) == y % 4 = 0 /\ (y % 100 # 0 \/ y % 400 = 0)

DaysInMonth(y, m) ==
    IF m = 2 THEN (IF IsLeap(y) THEN 29 ELSE 28)
    ELSE IF m \in {4, 6, 9, 11} THEN 30 ELSE 31

ValidDate(y, m, d) ==
    /\ y \in 1..9999
    /\ m \in 1..12
    /\ d >= 1
    /\ d <= DaysInMonth(y, m)

\* Days since 0000-03-01 of the proleptic Gregorian calendar.
DaysFromCivil(y, m, d) ==
    LET yy == IF m <= 2 THEN y - 1 ELSE y
        era == yy \div 400
        yoe == yy - era * 400
        mp == IF m > 2 THEN m - 3 ELSE m + 9
        doy == (153 * mp + 2) \div 5 + d - 1
        doe == yoe * 365 + yoe \div 4 - yoe \div 100 + doy
    IN  era * 146097 + doe

CivilFromDays(z) ==
    LET era == z \div 146097
        doe == z - era * 146097
        yoe == (doe - doe \div 1460 + doe \div 36524 - doe \div 146096) \div 365
        doy == doe - (365 * yoe + yoe \div 4 - yoe \div 100)
        mp == (5 * doy + 2) \div 153
        d == doy - (153 * mp + 2) \div 5 + 1
        m == IF mp < 10 THEN mp + 3 ELSE mp - 9
        y == yoe + era * 400 + (IF m <= 2 THEN 1 ELSE 0)
    IN  [y |-> y, m |-> m, d |-> d]

\* A datetime: the wall-clock fields and tzinfo ("naive", or minutes east of UTC).
DateTime(y, m, d, H, M, S, off) ==
    [ok |-> TRUE, y |-> y, m |-> m, d |-> d, H |-> H, M |-> M, S |-> S, off |-> off]

\* tzinfo None: no offset is a hundred days.
Naive == 100 * 1440

BadDate == [ok |-> FALSE]

----------------------------------------------------------------------------
(* datetime.fromisoformat, replace, astimezone, strftime, strptime.        *)

\* The first position k >= from with s[k] in seps, or Len(s) + 1.
FindFirst(s, from, seps) ==
    IF \E k \in from..Len(s) : s[k] \in seps
    THEN CHOOSE k \in from..Len(s) :
             /\ s[k] \in seps
             /\ \A j \in from..(k - 1) : s[j] \notin seps
    ELSE Len(s) + 1

\* HH[:MM[:SS]] of fromisoformat: [ok, H, M, S].
ParseHhMmSs(t) ==
    IF /\ Len(t) \in {2, 5, 8}
       /\ \A k \in 1..Len(t) : IF k \in {3, 6} THEN t[k] = ":" ELSE IsDigit(t[k])
    THEN [ok |-> TRUE,
          H |-> NumVal(SubSeq(t, 1, 2)),
          M |-> IF Len(t) >= 5 THEN NumVal(SubSeq(t, 4, 5)) ELSE 0,
          S |-> IF Len(t) >= 8 THEN NumVal(SubSeq(t, 7, 8)) ELSE 0]
    ELSE [ok |-> FALSE, H |-> 0, M |-> 0, S |-> 0]

fromisoformat(s) ==
    IF Len(s) < 10 THEN BadDate
    ELSE IF ~ (/\ AllDigits(SubSeq(s, 1, 4)) /\ s[5] = "-"
               /\ AllDigits(SubSeq(s, 6, 7)) /\ s[8] = "-"
               /\ AllDigits(SubSeq(s, 9, 10))) THEN BadDate
    ELSE LET y == NumVal(SubSeq(s, 1, 4))
             m == NumVal(SubSeq(s, 6, 7))
             d == NumVal(SubSeq(s, 9, 10))
             t == SubSeq(s, 12, Len(s))
             p == FindFirst(t, 1, {"+", "-"})
             hms == ParseHhMmSs(SubSeq(t, 1, p - 1))
             z == ParseHhMmSs(SubSeq(t, p + 1, Len(t)))
             sign == IF p <= Len(t) /\ t[p] = "-" THEN -1 ELSE 1
         IN  IF ~ ValidDate(y, m, d) THEN BadDate
             ELSE IF Len(s) = 10 THEN DateTime(y, m, d, 0, 0, 0, Naive)
             ELSE IF ~ hms.ok \/ hms.H > 23 \/ hms.M > 59 \/ hms.S > 59 THEN BadDate
             ELSE IF p > Len(t)
                  THEN DateTime(y, m, d, hms.H, hms.M, hms.S, Naive)
             ELSE IF ~ z.ok \/ Len(t) - p # 5 \/ z.H > 23 \/ z.M > 59 THEN BadDate
             ELSE DateTime(y, m, d, hms.H, hms.M, hms.S, sign * (z.H * 60 + z.M))

\* dt.replace(tzinfo=timezone.utc): the fields are kept, tzinfo is set.
replace_tzinfo_utc(dt) == [dt EXCEPT !.off = 0]

\* dt.astimezone(tz=None) of an aware datetime: the same instant in the zone
\* `zone` minutes east of UTC.
astimezone(dt, zone) ==
    LET mins == DaysFromCivil(dt.y, dt.m, dt.d) * 1440 + dt.H * 60 + dt.M
                - dt.off + zone
        c == CivilFromDays(mins \div 1440)
        r == mins % 1440
    IN  DateTime(c.y, c.m, c.d, r \div 60, r % 60, dt.S, zone)

\* dt.strftime("%Y:%m:%d %H:%M:%S")
strftime(dt) ==
    Pad4(dt.y) \o <<":">> \o Pad2(dt.m) \o <<":">> \o Pad2(dt.d) \o <<" ">>
    \o Pad2(dt.H) \o <<":">> \o Pad2(dt.M) \o <<":">> \o Pad2(dt.S)

\* A %m, %d, %H, %M or %S field: one or two digits.
ShortField(f) == Len(f) \in {1, 2} /\ AllDigits(f)

\* datetime.strptime(s, '%m/%d/%Y %H:%M:%S')
strptime(s) ==
    LET p1 == FindFirst(s, 1, {"/"})
        p2 == FindFirst(s, p1 + 1, {"/"})
        p3 == FindFirst(s, p2 + 1, {" "})
        p4 == FindFirst(s, p3 + 1, {":"})
        p5 == FindFirst(s, p4 + 1, {":"})
        fm == SubSeq(s, 1, p1 - 1)
        fd == SubSeq(s, p1 + 1, p2 - 1)
        fy == SubSeq(s, p2 + 1, p3 - 1)
        fH == SubSeq(s, p3 + 1, p4 - 1)
        fM == SubSeq(s, p4 + 1, p5 - 1)
        fS == SubSeq(s, p5 + 1, Len(s))
    IN  IF /\ p5 <= Len(s)
           /\ ShortField(fm) /\ ShortField(fd) /\ Len(fy) = 4 /\ AllDigits(fy)
           /\ ShortField(fH) /\ ShortField(fM) /\ ShortField(fS)
           /\ ValidDate(NumVal(fy), NumVal(fm), NumVal(fd))
           /\ NumVal(fH) <= 23 /\ NumVal(fM) <= 59 /\ NumVal(fS) <= 61
        THEN DateTime(NumVal(fy), NumVal(fm), NumVal(fd),
                      NumVal(fH), NumVal(fM), NumVal(fS), Naive)
        ELSE BadDate

\* Lines 131-133 and 152-154: the timestamp of a social-export record.
normalizeIG(taken_at, zone) ==
    LET raw_date == fromisoformat(taken_at)
    IN  IF raw_date.ok
        THEN [ok |-> TRUE,
              text |-> strftime(astimezone(replace_tzinfo_utc(raw_date), zone))]
        ELSE [ok |-> FALSE, text |-> <<>>]

\* The timestamp of a CSV row had the date been read day first.
normalizeCSVDayFirst(taken_at) ==
    LET date_string == taken_at \o <<" ", "1", "2", ":", "0", "0", ":", "0", "0">>
        date_raw == strptime(date_string)
    IN  IF date_raw.ok /\ ValidDate(date_raw.y, date_raw.d, date_raw.m)
        THEN [ok |-> TRUE,
              text |-> strftime([date_raw EXCEPT !.m = date_raw.d, !.d = date_raw.m])]
        ELSE [ok |-> FALSE, text |-> <<>>]

\* Lines 210-212: the timestamp of a CSV row.
normalizeCSV(taken_at) ==
    LET date_string == taken_at \o <<" ", "1", "2", ":", "0", "0", ":", "0", "0">>
        date_raw == strptime(date_string)
    IN  IF date_raw.ok
        THEN [ok |-> TRUE, text |-> strftime(date_raw)]
        ELSE [ok |-> FALSE, text |-> <<>>]

----------------------------------------------------------------------------
(* Paths: os.path.join, os.path.basename, re.sub.                          *)
join(a, b) ==
    IF b # <<>> /\ Head(b) = "/" THEN b
    ELSE IF a = <<>> \/ Last(a) = "/" THEN a \o b
    ELSE a \o <<"/">> \o b

basename(p) ==
    LET seps == {k \in 1..Len(p) : p[k] = "/"}
    IN  IF seps = {} THEN p
        ELSE SubSeq(p, (CHOOSE k \in seps : \A j \in seps : j <= k) + 1, Len(p))

\* re.sub('videos', 'photos', s)
sub_videos_photos(p) == [k \in 1..Len(p) |-> IF p[k] = "videos" THEN "photos" ELSE p[k]]

----------------------------------------------------------------------------
(* The configuration and the files of the host.                            *)
DataVolume == <<"/", "data">>
CopyVolume == <<"/", "copy">>
Artist == <<"J", "D">>
Source == <<"I", "G">>

\* The literal '/Volumes' of processIGVideos.
Volumes == <<"/", "Volumes">>

Sections == {"general", "plex", "filesystem"}

\* plexUp: whether the media server answers PlexServer(url, token).
Configs ==
    {[exists |-> FALSE, sections |-> {}, plexUp |-> TRUE]}
    \cup {[exists |-> TRUE, sections |-> ss, plexUp |-> TRUE] :
              ss \in {{}, {"general"}, {"filesystem"}, {"plex"},
                       {"general", "filesystem"}, Sections}}
    \cup {[exists |-> TRUE, sections |-> ss, plexUp |-> FALSE] :
              ss \in {{"plex"}, Sections}}

Zones == {0, -300}

ImgA == <<"/", "data", "/", "photos", "/", "a.jpg">>
ImgBad == <<"/", "data", "/", "photos", "/", "bad.jpg">>
ImgScan == <<"/", "data", "/", "img1", ".jpg">>
VidData == <<"/", "data", "/", "photos", "/", "v.mp4">>
VidVol == <<"/", "Volumes", "/", "videos", "/", "v.mp4">>
VidBad == <<"/", "Volumes", "/", "videos", "/", "bad.mp4">>

MediaFiles == {ImgA, ImgBad, ImgScan, VidData, VidVol, VidBad}

\* The files whose container the metadata tool cannot read.
Corrupt == {ImgBad, VidBad}

IsVideo(path) == path # <<>> /\ Last(path) \in {"v.mp4", "bad.mp4", "gone.mp4"}

DateTags == {"EXIF:ModifyDate", "EXIF:DateTimeOriginal", "EXIF:CreateDate"}

TagNames ==
    DateTags \cup
    {"IPTC:Caption-Abstract", "IPTC:Headline", "EXIF:ImageDescription",
     "EXIF:Make", "EXIF:Artist", "GPS:GPSLatitude",
     "QuickTime:CreateDate", "QuickTime:ModifyDate", "QuickTime:Artist"}

OldText == <<"o", "l", "d">>

\* A file as the camera or the export left it: every tag of its kind is set.
FreshTags(path) ==
    [t \in TagNames |->
        IF IsVideo(path)
        THEN (IF t \in {"QuickTime:CreateDate", "QuickTime:ModifyDate", "QuickTime:Artist"}
              THEN OldText ELSE <<>>)
        ELSE (IF t \in {"QuickTime:CreateDate", "QuickTime:ModifyDate", "QuickTime:Artist"}
              THEN <<>> ELSE OldText)]

----------------------------------------------------------------------------
(* exiftool, as subprocess.run(cmd) runs it.                               *)

\* The tags a -TAG=value argument names, for a file of the given kind.
TagsNamed(name, video) ==
    CASE name = "iptc:Caption-Abstract" -> {"IPTC:Caption-Abstract"}
      [] name = "iptc:Headline" -> {"IPTC:Headline"}
      [] name = "exif:imagedescription" -> {"EXIF:ImageDescription"}
      [] name = "AllDates" -> DateTags
      [] name = "make" -> {"EXIF:Make"}
      [] name = "artist" -> {"EXIF:Artist"}
      [] name = "CreateDate" ->
             (IF video THEN {"QuickTime:CreateDate"} ELSE {"EXIF:CreateDate"})
      [] OTHER -> {}

\* The file's tags after the assignments of cmd, applied in order: a tag is
\* set to the value given (deleted when the value is empty).
RECURSIVE ApplySets(_, _, _)
ApplySets(t, sets, video) ==
    IF sets = <<>> THEN t
    ELSE ApplySets([n \in TagNames |->
                       IF n \in TagsNamed(Head(sets)[1], video)
                       THEN Head(sets)[2] ELSE t[n]],
                   Tail(sets), video)

Backup(path) == path \o <<"_original">>

\* The exit status and the filesystem after `exiftool <args> file`.
ExifTool(cmd, files, meta) ==
    IF cmd.file \notin files \/ cmd.file \notin DOMAIN meta \/ cmd.file \in Corrupt
    THEN [rc |-> 1, fs |-> files, tags |-> meta]
    ELSE LET new == ApplySets(meta[cmd.file], cmd.sets, IsVideo(cmd.file))
             keep == ~ cmd.overwrite_original /\ Backup(cmd.file) \notin files
             dom == IF keep THEN DOMAIN meta \cup {Backup(cmd.file)} ELSE DOMAIN meta
         IN  [rc |-> 0,
              fs |-> IF keep THEN files \cup {Backup(cmd.file)} ELSE files,
              tags |-> [f \in dom |->
                           IF f = cmd.file THEN new
                           ELSE IF f \in DOMAIN meta THEN meta[f]
                           ELSE meta[cmd.file]]]

----------------------------------------------------------------------------
(* Construction: __init__ and _loadConfig.                                 *)

\* The attributes _loadConfig sets, or the failure of PlexServer(url, token).
loadConfig(c) ==
    IF ~ c.exists
    THEN [err |-> "", attrs |-> {}, log |-> <<<<"info", "Config File Not Found">>>>]
    ELSE LET general == IF "general" \in c.sections THEN {"artist", "source"} ELSE {}
             filesystem == IF "filesystem" \in c.sections
                           THEN {"dataVolume", "copyVolume"} ELSE {}
             plexLog == IF "plex" \in c.sections
                        THEN <<<<"info", "Loading Plex Configs">>>> ELSE <<>>
             fsLog == IF "filesystem" \in c.sections
                      THEN <<<<"info", "Loading Filesystem Configs">>>> ELSE <<>>
         IN  IF "plex" \in c.sections /\ ~ c.plexUp
             THEN [err |-> "ConnectionError",
                   attrs |-> {"config"} \cup general,
                   log |-> <<<<"info", "Loading Config File">>>> \o plexLog]
             ELSE [err |-> "",
                   attrs |-> {"config"} \cup general \cup filesystem
                             \cup (IF "plex" \in c.sections THEN {"plex"} ELSE {}),
                   log |-> <<<<"info", "Loading Config File">>>> \o plexLog \o fsLog]

Construct ==
    /\ phase = "new"
    /\ LET r == loadConfig(cfg)
       IN  /\ attrs' = r.attrs
           /\ log' = log \o r.log
           /\ err' = r.err
           /\ phase' = IF r.err = "" THEN "idle" ELSE "crashed"
    /\ UNCHANGED <<cfg, tz, fs, tags, op, arg, stage, i, calls, ret, store, loaded>>

----------------------------------------------------------------------------
(* One iteration of each loop: the invocations it makes, the files and the *)
(* log after it, and the exception it ends with ("" when it completes).    *)

Outcome(e, c, files, meta, l) ==
    [err |-> e, calls |-> c, fs |-> files, tags |-> meta, log |-> l]

Fails(e, c, l) == Outcome(e, c, fs, tags, l)

\* The command of _processPhoto had it named -CreateDate where it names
\* -AllDates, and appended the caption to the old headline.
photoCmdCreateDateOnly(filename, caption, taken_at) ==
    [exe |-> "exiftool",
     overwrite_original |-> TRUE,
     sets |-> << <<"iptc:Caption-Abstract", caption>>,
                 <<"iptc:Headline", OldText \o caption>>,
                 <<"exif:imagedescription", caption>>,
                 <<"CreateDate", taken_at>>,
                 <<"make", Source>>,
                 <<"artist", Artist>> >>,
     file |-> filename]

\* Lines 85-95: the command of _processPhoto.
photoCmd(filename, caption, taken_at) ==
    [exe |-> "exiftool",
     overwrite_original |-> TRUE,
     sets |-> << <<"iptc:Caption-Abstract", caption>>,
                 <<"iptc:Headline", caption>>,
                 <<"exif:imagedescription", caption>>,
                 <<"AllDates", taken_at>>,
                 <<"make", Source>>,
                 <<"artist", Artist>> >>,
     file |-> filename]

\* Lines 159-163: the command of processIGVideos.
videoCmd(filename, taken_at) ==
    [exe |-> "exiftool",
     overwrite_original |-> FALSE,
     sets |-> << <<"CreateDate", taken_at>> >>,
     file |-> filename]

\* _processPhoto(filename, caption, taken_at), called for record k.
processPhoto(filename, caption, taken_at, k) ==
    LET entry == [fn |-> "_processPhoto", filename |-> filename,
                  caption |-> caption, taken_at |-> taken_at, rec |-> k]
        info == <<"info", "Processing photo">>
    IN  IF "source" \notin attrs \/ "artist" \notin attrs
        THEN Fails("AttributeError", <<entry>>, <<info, <<"error", "AttributeError">>>>)
        ELSE LET cmd == photoCmd(filename, caption, taken_at)
                 r == ExifTool(cmd, fs, tags)
             IN  Outcome("", <<entry, [fn |-> "exiftool", cmd |-> cmd,
                                       rc |-> r.rc, rec |-> k]>>,
                         r.fs, r.tags, <<info>>)

Exists(path, k) == [fn |-> "exists", path |-> path, rec |-> k]

\* Lines 117-119: the handler around the loop of processScannedPhotos.
LogAndRaise(r) ==
    IF r.err = "" THEN r
    ELSE [r EXCEPT !.log = r.log \o <<<<"error", r.err>>>>]

\* Lines 107-115: the body of the loop of processScannedPhotos.
scannedItem(pic, k) ==
    LogAndRaise(
        IF "key" \in DOMAIN pic THEN Fails("TypeError", <<>>, <<>>)
        ELSE IF "taken_at" \notin DOMAIN pic THEN Fails("KeyError", <<>>, <<>>)
        ELSE IF "caption" \notin DOMAIN pic THEN Fails("KeyError", <<>>, <<>>)
        ELSE IF "path" \notin DOMAIN pic THEN Fails("KeyError", <<>>, <<>>)
        ELSE LET filename == pic.path
                 r == processPhoto(filename, pic.caption, pic.taken_at, k)
             IN  IF filename \in fs
                 THEN [r EXCEPT !.calls = <<Exists(filename, k)>> \o r.calls]
                 ELSE Fails("", <<Exists(filename, k)>>, <<>>))

\* The caption had the separator been written whether or not the record has
\* a location.
igCaptionAlwaysSeparator(pic) ==
    pic.caption \o <<" ", "-", " ">>
    \o (IF "location" \in DOMAIN pic THEN pic.location ELSE <<>>)

\* Lines 135-139: the caption of a social-export photo.
igCaption(pic) ==
    IF "location" \in DOMAIN pic
    THEN pic.caption \o <<" ", "-", " ">> \o pic.location
    ELSE pic.caption

\* Line 141: the file of a social-export photo.
photoPath(pic) == join(DataVolume, pic.path)

\* Lines 126-145: the body of the loop of processIGPhotos.
igPhotoItem(pic, k) ==
    IF "taken_at" \notin DOMAIN pic THEN Fails("KeyError", <<>>, <<>>)
    ELSE LET taken_at == normalizeIG(pic.taken_at, tz)
             filename == photoPath(pic)
             r == processPhoto(filename, igCaption(pic), taken_at.text, k)
         IN  IF ~ taken_at.ok THEN Fails("ValueError", <<>>, <<>>)
             ELSE IF "caption" \notin DOMAIN pic THEN Fails("KeyError", <<>>, <<>>)
             ELSE IF "dataVolume" \notin attrs THEN Fails("AttributeError", <<>>, <<>>)
             ELSE IF "path" \notin DOMAIN pic THEN Fails("KeyError", <<>>, <<>>)
             ELSE IF filename \in fs
             THEN [r EXCEPT !.calls = <<Exists(filename, k)>> \o r.calls]
             ELSE Fails("", <<Exists(filename, k)>>, <<>>)

\* Lines 156-157: the file of a social-export video; the result of re.sub is
\* overwritten by the join of '/Volumes' and the record's path.
videoPath(video) == join(Volumes, video.path)

\* Lines 151-165: the body of the loop of processIGVideos.
igVideoItem(video, k) ==
    IF "taken_at" \notin DOMAIN video THEN Fails("KeyError", <<>>, <<>>)
    ELSE LET taken_at == normalizeIG(video.taken_at, tz)
             cmd == videoCmd(videoPath(video), taken_at.text)
             r == ExifTool(cmd, fs, tags)
         IN  IF ~ taken_at.ok THEN Fails("ValueError", <<>>, <<>>)
             ELSE IF "path" \notin DOMAIN video THEN Fails("KeyError", <<>>, <<>>)
             ELSE Outcome("", <<[fn |-> "exiftool", cmd |-> cmd, rc |-> r.rc,
                                 rec |-> k]>>,
                          r.fs, r.tags, <<>>)

\* shutil.copyfile(src, dst): dst holds what src holds.
copyfile(src, dst, k, l) ==
    Outcome("", <<Exists(src, k), [fn |-> "copyfile", src |-> src, dst |-> dst, rec |-> k]>>,
            fs \cup {dst},
            [f \in DOMAIN tags \cup {dst} |-> IF f = dst THEN tags[src] ELSE tags[f]],
            l)

\* Lines 188-189: the file the copier looks for, for a video record.
copyVideoPath(video) == join(DataVolume, sub_videos_photos(video.path))

\* Line 178: the file the copier looks for, for a photo record.
copyPhotoPath(pic) == join(DataVolume, pic.path)

\* Lines 178-184: the body of the first loop of copyFilesFromJSON.
copyPhotoItem(pic, k) ==
    IF "dataVolume" \notin attrs THEN Fails("AttributeError", <<>>, <<>>)
    ELSE IF "path" \notin DOMAIN pic THEN Fails("KeyError", <<>>, <<>>)
    ELSE LET filename == copyPhotoPath(pic)
         IN  IF filename \in fs
             THEN copyfile(filename, join(CopyVolume, basename(filename)), k,
                           <<<<"info", "Copying File">>>>)
             ELSE Fails("", <<Exists(filename, k)>>, <<>>)

\* Lines 188-195: the body of the second loop of copyFilesFromJSON.
copyVideoItem(video, k) ==
    IF "path" \notin DOMAIN video THEN Fails("KeyError", <<>>, <<>>)
    ELSE IF "dataVolume" \notin attrs THEN Fails("AttributeError", <<>>, <<>>)
    ELSE LET path == copyVideoPath(video)
         IN  IF path \in fs
             THEN copyfile(path, join(CopyVolume, basename(path)), k, <<>>)
             ELSE Fails("", <<Exists(path, k)>>, <<>>)

----------------------------------------------------------------------------
(* The descriptors handed to the operations.                               *)
IsoText(y, m, d, H, M, S) ==
    Pad4(y) \o <<"-">> \o Pad2(m) \o <<"-">> \o Pad2(d) \o <<"T">>
    \o Pad2(H) \o <<":">> \o Pad2(M) \o <<":">> \o Pad2(S)

OffsetText(off) ==
    IF off = Naive THEN <<>>
    ELSE (IF off < 0 THEN <<"-">> ELSE <<"+">>)
         \o Pad2((IF off < 0 THEN -off ELSE off) \div 60) \o <<":">>
         \o Pad2((IF off < 0 THEN -off ELSE off) % 60)

\* An ISO-8601 timestamp with the fields it was written from.
IsoSample(y, m, d, H, M, S, off) ==
    [text |-> IsoText(y, m, d, H, M, S) \o OffsetText(off),
     y |-> y, m |-> m, d |-> d, H |-> H, M |-> M, S |-> S, off |-> off]

BatchIso ==
    {IsoSample(2021, 5, 1, 10, 0, 0, Naive), IsoSample(2021, 5, 1, 10, 0, 0, 120),
     IsoSample(2021, 1, 1, 2, 30, 7, Naive)}

NotADate == <<"n", "/", "a">>

Trip == <<"T", "r", "i", "p">>
Paris == <<"P", "a", "r", "i", "s">>
Stamp == <<"2", "0", "2", "0", ":", "0", "1", ":", "0", "2", " ",
           "1", "2", ":", "0", "0", ":", "0", "0">>

\* Records of a social-export 'photos' list: well-formed ones, ones whose
\* taken_at does not parse, and ones with a key missing.
PhotoA == <<"photos", "/", "a.jpg">>
PhotoGone == <<"photos", "/", "gone.jpg">>
PhotoBad == <<"photos", "/", "bad.jpg">>

IGPhotoRecords ==
    {[path |-> PhotoA, taken_at |-> t, caption |-> Trip] : t \in {x.text : x \in BatchIso}}
    \cup {[path |-> p, taken_at |-> IsoText(2021, 5, 1, 10, 0, 0), caption |-> Trip] :
              p \in {PhotoGone, PhotoBad}}
    \cup {[path |-> p, taken_at |-> IsoText(2021, 5, 1, 10, 0, 0), caption |-> Trip,
           location |-> Paris] : p \in {PhotoA, PhotoGone}}
    \cup {[path |-> p, taken_at |-> NotADate, caption |-> Trip] : p \in {PhotoA, PhotoGone}}
    \cup {[path |-> PhotoA, taken_at |-> IsoText(2021, 5, 1, 10, 0, 0), caption |-> <<>>,
           location |-> <<>>],
          [path |-> PhotoA, caption |-> Trip],
          [path |-> PhotoA, taken_at |-> IsoText(2021, 5, 1, 10, 0, 0)],
          [taken_at |-> IsoText(2021, 5, 1, 10, 0, 0), caption |-> <<>>]}

VideoV == <<"videos", "/", "v.mp4">>
VideoGone == <<"videos", "/", "gone.mp4">>
VideoBad == <<"videos", "/", "bad.mp4">>

IGVideoRecords ==
    {[path |-> p, taken_at |-> IsoText(2021, 5, 1, 10, 0, 0)] :
         p \in {VideoV, VideoGone, VideoBad}}
    \cup {[path |-> VideoV, taken_at |-> NotADate],
          [path |-> VideoV],
          [taken_at |-> IsoText(2021, 5, 1, 10, 0, 0)]}

ImgGone == <<"/", "data", "/", "gone.jpg">>

ScannedRecords ==
    {[path |-> p, taken_at |-> Stamp, caption |-> Trip] : p \in {ImgScan, ImgBad, ImgGone}}
    \cup {[path |-> ImgScan, taken_at |-> Stamp, caption |-> <<>>],
          [path |-> ImgScan, caption |-> Trip],
          [path |-> ImgScan, taken_at |-> Stamp],
          [taken_at |-> Stamp, caption |-> Trip]}

CopyPhotoRecords == {[path |-> PhotoA], [path |-> PhotoGone], [caption |-> Trip]}

CopyVideoRecords == {[path |-> VideoV], [taken_at |-> NotADate]}

\* The sequences over R of at most n records.
RECURSIVE SeqsUpTo(_, _)
SeqsUpTo(R, n) ==
    IF n = 0 THEN {<<>>}
    ELSE LET shorter == SeqsUpTo(R, n - 1)
         IN  shorter \cup {Append(q, r) : q \in shorter, r \in R}

ScannedBatches == SeqsUpTo(ScannedRecords, MaxBatch)
IGPhotoBatches == SeqsUpTo(IGPhotoRecords, MaxBatch)
IGVideoBatches == SeqsUpTo(IGVideoRecords, MaxBatch)
CopyPhotoBatches == SeqsUpTo(CopyPhotoRecords, MaxBatch)
CopyVideoBatches == SeqsUpTo(CopyVideoRecords, MaxBatch)

----------------------------------------------------------------------------
(* The calls of a script and the steps of their loops.                     *)

Start(o, a, st) ==
    /\ phase' = "running"
    /\ op' = o
    /\ arg' = a
    /\ stage' = st
    /\ i' = 1
    /\ calls' = <<>>
    /\ UNCHANGED <<cfg, attrs, tz, fs, tags, err, ret, log, store, loaded>>

CallScanned ==
    /\ phase = "idle"
    /\ \E d \in ScannedBatches :
           Start("processScannedPhotos", [list |-> d], "list")

CallIGPhotos ==
    /\ phase = "idle"
    /\ \E d \in IGPhotoBatches :
           Start("processIGPhotos", [photos |-> d], "photos")

CallIGVideos ==
    /\ phase = "idle"
    /\ \E d \in IGVideoBatches :
           Start("processIGVideos", [list |-> d], "list")

CallCopy ==
    /\ phase = "idle"
    /\ \E d \in CopyPhotoBatches :
           \/ Start("copyFilesFromJSON", [photos |-> d], "photos")
           \/ \E v \in CopyVideoBatches :
                  Start("copyFilesFromJSON", [photos |-> d, videos |-> v], "photos")

\* The keys of a dict, in insertion order: what iterating the dict yields.
Keys(a) ==
    <<[key |-> "photos"]>> \o (IF "videos" \in DOMAIN a THEN <<[key |-> "videos"]>> ELSE <<>>)

\* The sequence the running loop iterates.
Items ==
    CASE stage = "list" -> (IF "list" \in DOMAIN arg THEN arg.list ELSE Keys(arg))
      [] stage = "photos" -> arg.photos
      [] stage = "videos" -> arg.videos
      [] OTHER -> <<>>

Running(o, st) == phase = "running" /\ op = o /\ stage = st /\ i <= Len(Items)

\* The state after an iteration with outcome r.
Conclude(r) ==
    /\ calls' = calls \o r.calls
    /\ fs' = r.fs
    /\ tags' = r.tags
    /\ log' = log \o r.log
    /\ err' = r.err
    /\ phase' = IF r.err = "" THEN "running" ELSE "raised"
    /\ i' = IF r.err = "" THEN i + 1 ELSE i
    /\ UNCHANGED <<cfg, attrs, tz, op, arg, stage, ret, store, loaded>>

ScannedStep ==
    /\ Running("processScannedPhotos", "list")
    /\ \E r \in {scannedItem(Items[i], i)} : Conclude(r)

IGPhotoStep ==
    /\ Running("processIGPhotos", "photos")
    /\ \E r \in {igPhotoItem(Items[i], i)} : Conclude(r)

IGVideoStep ==
    /\ Running("processIGVideos", "list")
    /\ \E r \in {igVideoItem(Items[i], i)} : Conclude(r)

CopyPhotoStep ==
    /\ Running("copyFilesFromJSON", "photos")
    /\ \E r \in {copyPhotoItem(Items[i], i)} : Conclude(r)

CopyVideoStep ==
    /\ Running("copyFilesFromJSON", "videos")
    /\ \E r \in {copyVideoItem(Items[i], i)} : Conclude(r)

\* Line 186: after the photos, the videos when the data has them.
CopyNextLoop ==
    /\ phase = "running" /\ op = "copyFilesFromJSON" /\ stage = "photos"
    /\ i > Len(Items)
    /\ "videos" \in DOMAIN arg
    /\ stage' = "videos"
    /\ i' = 1
    /\ UNCHANGED <<phase, cfg, attrs, tz, fs, tags, op, arg, calls, err, ret, log,
                   store, loaded>>

\* The loop is exhausted and the call returns None.
Return ==
    /\ phase = "running"
    /\ op \in {"processScannedPhotos", "processIGPhotos", "processIGVideos",
               "copyFilesFromJSON"}
    /\ i > Len(Items)
    /\ ~ (op = "copyFilesFromJSON" /\ stage = "photos" /\ "videos" \in DOMAIN arg)
    /\ phase' = "returned"
    /\ ret' = <<"None">>
    /\ UNCHANGED <<cfg, attrs, tz, fs, tags, op, arg, stage, i, calls, err, log,
                   store, loaded>>

NoValue == <<>>

Init ==
    /\ phase = "new"
    /\ cfg \in Configs
    /\ attrs = {}
    /\ tz \in Zones
    /\ fs = MediaFiles
    /\ tags = [f \in MediaFiles |-> FreshTags(f)]
    /\ op = ""
    /\ arg = [list |-> <<>>]
    /\ stage = ""
    /\ i = 0
    /\ calls = <<>>
    /\ err = ""
    /\ ret = NoValue
    /\ log = <<>>
    /\ store = <<>>
    /\ loaded = [none |-> TRUE]

Next ==
    \/ Construct
    \/ CallScanned
    \/ CallIGPhotos
    \/ CallIGVideos
    \/ CallCopy
    \/ ScannedStep
    \/ IGPhotoStep
    \/ IGVideoStep
    \/ CopyPhotoStep
    \/ CopyVideoStep
    \/ CopyNextLoop
    \/ Return

Spec == Init /\ [][Next]_vars

----------------------------------------------------------------------------
(* The CSV import: convertCSVtoJSON and loadJSON.                          *)

\* The characters that are not ASCII, and their UTF-8 bytes and JSON escapes.
NonAscii == {"U+00E9"}

Utf8Of(c) == IF c = "U+00E9" THEN <<"0xC3", "0xA9">> ELSE <<c>>

Latin1Of(b) ==
    CASE b = "0xC3" -> "U+00C3"
      [] b = "0xA9" -> "U+00A9"
      [] OTHER -> b

EscapeOf(c) ==
    CASE c = "U+00E9" -> <<"\\", "u", "0", "0", "e", "9">>
      [] c = "\"" -> <<"\\", "\"">>
      [] c = "\\" -> <<"\\", "\\">>
      [] OTHER -> <<c>>

RECURSIVE FlatMap(_, _)
FlatMap(Op(_), s) == IF s = <<>> THEN <<>> ELSE Op(Head(s)) \o FlatMap(Op, Tail(s))

\* A string as json.dumps writes it without ensure_ascii: only the quote and
\* the backslash are escaped.
dumpsStrRaw(text) ==
    LET esc(c) == IF c \in NonAscii THEN <<c>> ELSE EscapeOf(c)
    IN  <<"\"">> \o FlatMap(esc, text) \o <<"\"">>

\* A string as json.dumps writes it (ensure_ascii is on by default).
dumpsStr(text) == <<"\"">> \o FlatMap(EscapeOf, text) \o <<"\"">>

\* The characters of a JSON string body, the escapes undone.
RECURSIVE Unescape(_)
Unescape(t) ==
    IF t = <<>> THEN <<>>
    ELSE IF Head(t) # "\\" THEN <<Head(t)>> \o Unescape(Tail(t))
    ELSE IF t[2] = "u"
         THEN <<CHOOSE c \in NonAscii : EscapeOf(c) = SubSeq(t, 1, 6)>>
              \o Unescape(SubSeq(t, 7, Len(t)))
         ELSE <<t[2]>> \o Unescape(SubSeq(t, 3, Len(t)))

\* A string as json.load reads it.
loadsStr(text) == Unescape(SubSeq(text, 2, Len(text) - 1))

\* open(..., 'w+', encoding='utf-8').write(text)
encodeUtf8(text) == FlatMap(Utf8Of, text)

\* open(..., 'r', encoding='latin-1').read()
decodeLatin1(bytes) == [k \in 1..Len(bytes) |-> Latin1Of(bytes[k])]

\* Lines 228: the bytes of the descriptor file, one JSON string per field.
dumpFile(data) ==
    [photos |->
        [k \in 1..Len(data.photos) |->
            [f \in DOMAIN data.photos[k] |-> encodeUtf8(dumpsStr(data.photos[k][f]))]]]

\* Lines 67-68: the data read from the bytes of a descriptor file.
loadFile(bytes) ==
    [photos |->
        [k \in 1..Len(bytes.photos) |->
            [f \in DOMAIN bytes.photos[k] |-> loadsStr(decodeLatin1(bytes.photos[k][f]))]]]

CsvName == <<"scan", ".csv">>

\* Line 225: re.sub('.csv', '.json', filename)
sub_csv_json(name) == [k \in 1..Len(name) |-> IF name[k] = ".csv" THEN ".json" ELSE name[k]]

\* Lines 207-218: the record of a CSV row.
convertRow(row) ==
    LET date_final == normalizeCSV(row.taken_at)
    IN  [ok |-> date_final.ok,
         x |-> [caption |-> row.caption,
                taken_at |-> date_final.text,
                path |-> DataVolume \o <<"/">> \o row.name \o <<".jpg">>]]

\* Lines 206-221: the records of the rows, up to the first row that fails.
RECURSIVE convertRows(_)
convertRows(rows) ==
    IF rows = <<>> THEN [err |-> "", photos |-> <<>>]
    ELSE IF "dataVolume" \notin attrs THEN [err |-> "AttributeError", photos |-> <<>>]
    ELSE IF ~ convertRow(Head(rows)).ok THEN [err |-> "ValueError", photos |-> <<>>]
    ELSE LET rest == convertRows(Tail(rows))
         IN  [err |-> rest.err,
              photos |-> <<convertRow(Head(rows)).x>> \o rest.photos]

\* convertCSVtoJSON(filename): the whole call.
CallConvert ==
    /\ phase = "idle"
    /\ CsvName \in DOMAIN store
    /\ LET r == convertRows(store[CsvName])
           json_filename == sub_csv_json(CsvName)
           adding == [k \in 1..Len(r.photos) |-> <<"debug", "Adding Path">>]
       IN  /\ op' = "convertCSVtoJSON"
           /\ arg' = [filename |-> CsvName]
           /\ err' = r.err
           /\ IF r.err # ""
              THEN /\ phase' = "raised"
                   /\ log' = log \o <<<<"info", "Processing CSV File">>>> \o adding
                   /\ UNCHANGED <<store, fs, ret>>
              ELSE /\ phase' = "returned"
                   /\ log' = log \o <<<<"info", "Processing CSV File">>>> \o adding
                             \o <<<<"info", "Creating JSON File">>>>
                   /\ store' = [f \in DOMAIN store \cup {json_filename} |->
                                   IF f = json_filename THEN dumpFile([photos |-> r.photos])
                                   ELSE store[f]]
                   /\ fs' = fs \cup {json_filename}
                   /\ ret' = json_filename
    /\ UNCHANGED <<cfg, attrs, tz, tags, stage, i, calls, loaded>>

\* data = loadJSON(json_filename), with the name convertCSVtoJSON returned.
CallLoadJSON ==
    /\ phase = "returned" /\ op = "convertCSVtoJSON"
    /\ op' = "loadJSON"
    /\ arg' = [filename |-> ret]
    /\ IF ret \in DOMAIN store
       THEN /\ loaded' = loadFile(store[ret])
            /\ ret' = <<"data">>
            /\ log' = log \o <<<<"info", "Loading JSON data">>,
                               <<"info", "JSON data successfully loaded">>>>
            /\ UNCHANGED <<phase, err>>
       ELSE /\ phase' = "raised"
            /\ err' = "FileNotFoundError"
            /\ log' = log \o <<<<"info", "Loading JSON data">>,
                               <<"error", "FileNotFoundError">>>>
            /\ UNCHANGED <<loaded, ret>>
    /\ UNCHANGED <<cfg, attrs, tz, fs, tags, stage, i, calls, store>>

\* processScannedPhotos(data['photos']) or processScannedPhotos(data).
CallScannedLoaded ==
    /\ phase = "returned" /\ op = "loadJSON"
    /\ \/ Start("processScannedPhotos", [list |-> loaded.photos], "list")
       \/ Start("processScannedPhotos", loaded, "list")

\* processIGPhotos(data).
CallIGPhotosLoaded ==
    /\ phase = "returned" /\ op = "loadJSON"
    /\ Start("processIGPhotos", loaded, "photos")

\* The rows of a CSV file: a date text with the date it was written from.
CsvDate(text, m, d, y) == [text |-> text, m |-> m, d |-> d, y |-> y]

ValidCsvDates ==
    {CsvDate(<<"0", "1", "/", "0", "2", "/", "2", "0", "2", "0">>, 1, 2, 2020),
     CsvDate(<<"1", "/", "2", "/", "2", "0", "2", "0">>, 1, 2, 2020),
     CsvDate(<<"1", "2", "/", "3", "1", "/", "1", "9", "9", "9">>, 12, 31, 1999),
     CsvDate(<<"0", "2", "/", "2", "9", "/", "2", "0", "2", "0">>, 2, 29, 2020)}

InvalidCsvDates ==
    {<<"0", "2", "/", "3", "0", "/", "2", "0", "2", "0">>,
     <<"2", "0", "2", "0", "-", "0", "1", "-", "0", "2">>}

Hello == <<"h", "e", "l", "l", "o">>
Quoted == <<"\"", "U+00E9", "\\">>

CsvRows ==
    {[name |-> <<"img1">>, taken_at |-> x.text, caption |-> Hello] : x \in ValidCsvDates}
    \cup {[name |-> <<"img2">>, taken_at |-> <<"1", "/", "2", "/", "2", "0", "2", "0">>,
           caption |-> Quoted],
          [name |-> <<"img1">>, taken_at |-> <<"1", "/", "2", "/", "2", "0", "2", "0">>,
           caption |-> <<>>]}
    \cup {[name |-> <<"img1">>, taken_at |-> t, caption |-> Hello] : t \in InvalidCsvDates}

CsvFiles == SeqsUpTo(CsvRows, MaxRows)

CsvConfigs ==
    {c \in Configs : c.plexUp /\ c.sections \in {{}, {"filesystem"}, {"general", "filesystem"}}}

InitCsv ==
    /\ phase = "new"
    /\ cfg \in CsvConfigs
    /\ attrs = {}
    /\ tz \in Zones
    /\ fs = MediaFiles \cup {CsvName}
    /\ tags = [f \in MediaFiles |-> FreshTags(f)]
    /\ op = ""
    /\ arg = [list |-> <<>>]
    /\ stage = ""
    /\ i = 0
    /\ calls = <<>>
    /\ err = ""
    /\ ret = NoValue
    /\ log = <<>>
    /\ store \in {[f \in {CsvName} |-> rows] : rows \in CsvFiles}
    /\ loaded = [none |-> TRUE]

NextCsv ==
    \/ Construct
    \/ CallConvert
    \/ CallLoadJSON
    \/ CallScannedLoaded
    \/ CallIGPhotosLoaded
    \/ ScannedStep
    \/ IGPhotoStep
    \/ Return

SpecCsv == InitCsv /\ [][NextCsv]_vars

----------------------------------------------------------------------------
(* What the claims speak of.                                               *)
ProcessingOps == {"processScannedPhotos", "processIGPhotos", "processIGVideos"}

Finished == phase \in {"returned", "raised"}

Configured == {"artist", "source", "dataVolume", "copyVolume"} \subseteq attrs

RequiredKeys(o) ==
    IF o = "processIGVideos" THEN {"taken_at", "path"} ELSE {"taken_at", "caption", "path"}

HasKeys(o, rec) == RequiredKeys(o) \subseteq DOMAIN rec

\* The record's timestamp is none of the ISO-8601 texts.
Unparsable(o, rec) ==
    /\ o # "processScannedPhotos"
    /\ "taken_at" \in DOMAIN rec
    /\ rec.taken_at \notin {x.text : x \in BatchIso}

WellFormed(o, rec) == HasKeys(o, rec) /\ ~ Unparsable(o, rec)

\* The file the operation resolves for a well-formed record.
Resolved(o, rec) ==
    CASE o = "processScannedPhotos" -> rec.path
      [] o = "processIGPhotos" -> DataVolume \o <<"/">> \o rec.path
      [] OTHER -> Volumes \o <<"/">> \o rec.path

Malformed(o, rec) ==
    \/ ~ WellFormed(o, rec)
    \/ WellFormed(o, rec) /\ Resolved(o, rec) \in Corrupt

CallsOf(k, fns) == {j \in 1..Len(calls) : calls[j].rec = k /\ calls[j].fn \in fns}

\* Record k was handed to the metadata writer.
Handed(k) == CallsOf(k, {"_processPhoto", "exiftool"}) # {}

\* C1: when a processing call has ended on a batch with exactly one malformed
\* record, every other record whose file exists was handed to the writer.
C1_OneMalformedRecordSparesTheOthers ==
    (/\ Finished
     /\ op \in ProcessingOps
     /\ Configured
     /\ Cardinality({k \in 1..Len(Items) : Malformed(op, Items[k])}) = 1)
    => \A k \in 1..Len(Items) :
           (~ Malformed(op, Items[k]) /\ Resolved(op, Items[k]) \in fs) => Handed(k)

\* C2: in a processing call, a record whose file does not exist causes no
\* invocation of the metadata tool and is not the record the call fails on.
C2_MissingFileIsSkipped ==
    (op \in ProcessingOps /\ Configured)
    => \A k \in 1..Len(Items) :
           (/\ WellFormed(op, Items[k])
            /\ Resolved(op, Items[k]) \notin fs)
           => /\ ~ Handed(k)
              /\ ~ (phase = "raised" /\ i = k)

\* C3: a call in which the metadata tool reported an error for some file is
\* told apart by its caller from a call in which every write succeeded: it
\* raises, or it returns something other than the None of a clean run.
C3_FailedWriteIsReported ==
    (/\ Finished
     /\ op \in ProcessingOps
     /\ \E j \in 1..Len(calls) : calls[j].fn = "exiftool" /\ calls[j].rc # 0)
    => (phase = "raised" \/ ret # <<"None">>)

\* The attributes an operation reads.
Needs(o) ==
    CASE o \in {"processIGPhotos"} -> {"dataVolume", "artist", "source"}
      [] o \in {"copyFilesFromJSON", "convertCSVtoJSON"} -> {"dataVolume", "copyVolume"}
      [] o = "processScannedPhotos" -> {"artist", "source"}
      [] OTHER -> {}

\* C4: construction completes whatever sections the configuration lacks, and
\* a call that fails for want of a missing section fails with a 'not
\* configured' error, before any write or copy, never with an attribute error.
C4_MissingSectionFailsFast ==
    /\ (phase = "crashed" => "plex" \in cfg.sections)
    /\ err # "AttributeError"
    /\ (/\ phase = "raised"
        /\ ~ (Needs(op) \subseteq attrs)
        /\ \A k \in 1..Len(Items) : WellFormed(op, Items[k]))
       => (err = "NotConfigured" /\ \A j \in 1..Len(calls) : calls[j].fn = "exists")

\* The wall-clock fields of a sample, moved by delta minutes (less than a day).
Shifted(x, delta) ==
    LET mins == x.H * 60 + x.M + delta
        prev == IF x.d > 1 THEN [y |-> x.y, m |-> x.m, d |-> x.d - 1]
                ELSE IF x.m > 1
                     THEN [y |-> x.y, m |-> x.m - 1, d |-> DaysInMonth(x.y, x.m - 1)]
                     ELSE [y |-> x.y - 1, m |-> 12, d |-> 31]
        next == IF x.d < DaysInMonth(x.y, x.m) THEN [y |-> x.y, m |-> x.m, d |-> x.d + 1]
                ELSE IF x.m < 12 THEN [y |-> x.y, m |-> x.m + 1, d |-> 1]
                     ELSE [y |-> x.y + 1, m |-> 1, d |-> 1]
        day == IF mins < 0 THEN prev
               ELSE IF mins >= 1440 THEN next
               ELSE [y |-> x.y, m |-> x.m, d |-> x.d]
        r == (mins + 1440) % 1440
    IN  Pad4(day.y) \o <<":">> \o Pad2(day.m) \o <<":">> \o Pad2(day.d) \o <<" ">>
        \o Pad2(r \div 60) \o <<":">> \o Pad2(r % 60) \o <<":">> \o Pad2(x.S)

\* The local time of the instant a sample names: UTC when it carries no
\* offset, its own offset otherwise.
LocalOfInstant(x, zone) == Shifted(x, zone - (IF x.off = Naive THEN 0 ELSE x.off))

\* The timestamp an invocation passes to the metadata tool.
StampOf(c) ==
    IF c.fn = "_processPhoto" THEN c.taken_at ELSE c.cmd.sets[1][2]

\* C6: the timestamp a social-export record is written with is its taken_at
\* read as ISO-8601, as a UTC instant unless it carries an offset, which is
\* then honoured, shown in the host's zone as YYYY:MM:DD HH:MM:SS.
C6_TimestampIsLocalTimeOfInstant ==
    (op \in {"processIGPhotos", "processIGVideos"} /\ Configured)
    => \A j \in 1..Len(calls) :
           (calls[j].fn = "_processPhoto" \/ (op = "processIGVideos" /\ calls[j].fn = "exiftool"))
           => \A x \in BatchIso :
                  Items[calls[j].rec].taken_at = x.text
                  => StampOf(calls[j]) = LocalOfInstant(x, tz)

\* The part of C6 the code keeps: a taken_at that carries no offset.
C6_NaiveTimestampIsLocalTimeOfUTC ==
    op \in {"processIGPhotos", "processIGVideos"}
    => \A j \in 1..Len(calls) :
           (calls[j].fn = "_processPhoto" \/ (op = "processIGVideos" /\ calls[j].fn = "exiftool"))
           => \A x \in BatchIso :
                  (Items[calls[j].rec].taken_at = x.text /\ x.off = Naive)
                  => StampOf(calls[j]) = LocalOfInstant(x, tz)

\* C8: the caption a social-export photo is written with is
\* '<caption> - <location>' when the record has a location, and the caption
\* alone, with no separator after it, when it has none.
C8_CaptionJoinsLocation ==
    op = "processIGPhotos"
    => \A j \in 1..Len(calls) :
           calls[j].fn = "_processPhoto"
           => LET pic == Items[calls[j].rec]
              IN  /\ "location" \in DOMAIN pic
                     => calls[j].caption = pic.caption \o <<" ", "-", " ">> \o pic.location
                  /\ "location" \notin DOMAIN pic => calls[j].caption = pic.caption

C8_Witness ==
    /\ op = "processIGPhotos"
    /\ \E j, k \in 1..Len(calls) :
           /\ calls[j].fn = "_processPhoto" /\ calls[k].fn = "_processPhoto"
           /\ calls[j].caption = Trip \o <<" ", "-", " ">> \o Paris
           /\ calls[k].caption = Trip

\* C10: the file a social-export record is written to is its path under the
\* data root, the file the copier resolves for the same record.
C10_WrittenFileIsCopiedFile ==
    (op \in {"processIGPhotos", "processIGVideos"} /\ "dataVolume" \in attrs)
    => \A j \in 1..Len(calls) :
           calls[j].fn = "exiftool"
           => calls[j].cmd.file =
                  (IF op = "processIGPhotos" THEN copyPhotoPath(Items[calls[j].rec])
                   ELSE copyVideoPath(Items[calls[j].rec]))

\* The part of C10 the code keeps: the photos.
C10_WrittenPhotoIsCopiedPhoto ==
    (op = "processIGPhotos" /\ "dataVolume" \in attrs)
    => \A j \in 1..Len(calls) :
           calls[j].fn = "exiftool"
           => calls[j].cmd.file = copyPhotoPath(Items[calls[j].rec])

\* The tags a write of the file's kind may change.
Touched(f) ==
    IF IsVideo(f) THEN {"QuickTime:CreateDate"}
    ELSE DateTags \cup {"IPTC:Caption-Abstract", "IPTC:Headline",
                        "EXIF:ImageDescription", "EXIF:Make", "EXIF:Artist"}

\* The invocations of the metadata tool on f that succeeded.
Writes(f) ==
    {j \in 1..Len(calls) :
         calls[j].fn = "exiftool" /\ calls[j].cmd.file = f /\ calls[j].rc = 0}

\* The value the write calls[j] was given for tag t: for an image, from the
\* caption and timestamp _processPhoto was called with, just before.
Given(j, t) ==
    IF IsVideo(calls[j].cmd.file) THEN calls[j].cmd.sets[1][2]
    ELSE CASE t \in DateTags -> calls[j - 1].taken_at
           [] t = "EXIF:Make" -> Source
           [] t = "EXIF:Artist" -> Artist
           [] OTHER -> calls[j - 1].caption

JsonName == <<"scan", ".json">>

Noon == <<" ", "1", "2", ":", "0", "0", ":", "0", "0">>

\* The date of a sample at 12:00:00, as YYYY:MM:DD HH:MM:SS.
NoonOf(x) == Pad4(x.y) \o <<":">> \o Pad2(x.m) \o <<":">> \o Pad2(x.d) \o Noon

DateOf(text) == CHOOSE x \in ValidCsvDates : x.text = text

Rows == store[CsvName]

\* C7: the descriptor written holds one record per row, in row order, whose
\* taken_at is the row's date at 12:00:00 as YYYY:MM:DD HH:MM:SS, whatever
\* the host's timezone.
C7_DescriptorDateIsNoonOfRowDate ==
    JsonName \in DOMAIN store
    => /\ Len(store[JsonName].photos) = Len(Rows)
       /\ \A k \in 1..Len(Rows) :
              /\ Rows[k].taken_at \in {x.text : x \in ValidCsvDates}
              /\ store[JsonName].photos[k].taken_at
                     = <<"\"">> \o NoonOf(DateOf(Rows[k].taken_at)) \o <<"\"">>

C7_Witness ==
    /\ JsonName \in DOMAIN store
    /\ tz # 0
    /\ Len(Rows) = 2
    /\ Rows[1].taken_at = <<"1", "2", "/", "3", "1", "/", "1", "9", "9", "9">>
    /\ Rows[2].taken_at = <<"1", "/", "2", "/", "2", "0", "2", "0">>

\* The record a row is to come back as.
RecordOf(row) ==
    [caption |-> row.caption,
     taken_at |-> NoonOf(DateOf(row.taken_at)),
     path |-> DataVolume \o <<"/">> \o row.name \o <<".jpg">>]

Reloaded == "photos" \in DOMAIN loaded

\* The records loadJSON gives back are the rows' records, one per row.
RoundTrip ==
    Reloaded
    => /\ Len(loaded.photos) = Len(Rows)
       /\ \A k \in 1..Len(Rows) :
              /\ loaded.photos[k] = RecordOf(Rows[k])
              /\ SubSeq(loaded.photos[k].path, Len(loaded.photos[k].path) - 1,
                        Len(loaded.photos[k].path)) = Rows[k].name \o <<".jpg">>

\* A batch operation is running, or has run, on the reloaded descriptor in
\* the form the operation takes: the list for processScannedPhotos, the
\* mapping for processIGPhotos.
OnReloaded ==
    /\ Reloaded
    /\ \/ op = "processScannedPhotos" /\ "list" \in DOMAIN arg
       \/ op = "processIGPhotos"

\* Every record handed to the writer so far carries the row's values.
HandsRowValues ==
    \A j \in 1..Len(calls) :
        calls[j].fn = "_processPhoto"
        => LET want == RecordOf(Rows[calls[j].rec])
           IN  /\ calls[j].filename = want.path
               /\ calls[j].caption = want.caption
               /\ calls[j].taken_at = want.taken_at

\* The call went through every record and wrote those whose file exists.
ProcessedAll ==
    /\ phase # "raised"
    /\ phase = "returned"
       => \A k \in 1..Len(Rows) : RecordOf(Rows[k]).path \in fs => Handed(k)

\* C5 as stated: the descriptor written from the CSV loads back as one record
\* per row with the row's path, noon timestamp and caption, and the batch
\* operations process it, as a shape-1 or a shape-2 descriptor.
C5_ReloadedDescriptorIsProcessed ==
    /\ RoundTrip
    /\ (OnReloaded /\ Configured) => (HandsRowValues /\ ProcessedAll)

\* C5 as amended: the same, for processScannedPhotos on the 'photos' list.
C5_ReloadedPhotosListIsProcessed ==
    /\ RoundTrip
    /\ (OnReloaded /\ Configured /\ op = "processScannedPhotos")
       => (HandsRowValues /\ ProcessedAll)

C5_Witness ==
    /\ OnReloaded /\ Configured
    /\ op = "processScannedPhotos"
    /\ phase = "returned"
    /\ Len(Rows) = 2
    /\ Rows[1].caption = Quoted
    /\ Handed(2)

====
